---- MODULE Spec2Model ----
(***************************************************************************)
(* Model of the per-core CPU abstraction of auto-clock-speed (src/cpu.rs): *)
(* the CPU struct, the Speed trait implementation that reads and writes    *)
(* the kernel's cpufreq and thermal pseudo-files, and the utilisation      *)
(* field fed by calculate_cpu_percent.                                     *)
(*                                                                         *)
(* Text is modelled as sequences of one-character strings, so that         *)
(* String::pop, i32::to_string, str::parse::<i32> and str::replace are     *)
(* computed character by character as the library computes them.           *)
(***************************************************************************)
EXTENDS Integers, Sequences, FiniteSets, TLC

VARIABLES cpus, fs, last, steps

vars == <<cpus, fs, last, steps>>

(***************************************************************************)
(* Bounds of the model                                                     *)
(***************************************************************************)
\* how many steps (operations of the program, changes by the kernel) a run takes
MaxSteps == 2
\* largest value of one jiffie counter of a /proc/stat snapshot
MaxJiffies == 2

(***************************************************************************)
(* Text                                                                    *)
(***************************************************************************)
NL == "\n"

Digits == <<"0", "1", "2", "3", "4", "5", "6", "7", "8", "9">>

IsDigit(c) == \E i \in 1..10 : Digits[i] = c

DigitVal(c) == (CHOOSE i \in 1..10 : Digits[i] = c) - 1

\* String::pop: removes the last character, whatever it is; no-op when empty
pop(info) == IF info = <<>> THEN <<>> ELSE SubSeq(info, 1, Len(info) - 1)

RECURSIVE NatToString(_)
NatToString(n) ==
    IF n < 10 THEN <<Digits[n + 1]>>
    ELSE NatToString(n \div 10) \o <<Digits[(n % 10) + 1]>>

\* i32::to_string: decimal digits, a leading "-" for negatives, nothing else
to_string(n) == IF n < 0 THEN <<"-">> \o NatToString(-n) ELSE NatToString(n)

RECURSIVE DigitsValue(_)
DigitsValue(s) ==
    IF s = <<>> THEN 0
    ELSE 10 * DigitsValue(SubSeq(s, 1, Len(s) - 1)) + DigitVal(s[Len(s)])

AllDigits(s) == \A i \in 1..Len(s) : IsDigit(s[i])

RECURSIVE StripZeros(_)
StripZeros(s) == IF s # <<>> /\ Head(s) = "0" THEN StripZeros(Tail(s)) ELSE s

\* whether the digits t (no leading zero) exceed the magnitude an i32 can hold:
\* 2147483647 for a positive number, 2147483648 for a negative one
Overflows(t, negative) ==
    \/ Len(t) > 10
    \/ /\ Len(t) = 10
       /\ LET hi == DigitsValue(SubSeq(t, 1, 9))
              d  == DigitVal(t[10])
          IN  hi > 214748364 \/ (hi = 214748364 /\ d > (IF negative THEN 8 ELSE 7))

\* str::parse::<i32>: optional sign, then one or more decimal digits, in range
parse_i32(s) ==
    LET signed   == s # <<>> /\ s[1] \in {"+", "-"}
        negative == signed /\ s[1] = "-"
        body     == IF signed THEN Tail(s) ELSE s
        t        == StripZeros(body)
        hi       == DigitsValue(SubSeq(t, 1, Len(t) - 1))
        d        == DigitVal(t[Len(t)])
    IN  IF body = <<>> \/ ~AllDigits(body) THEN [ok |-> FALSE, val |-> 0]
        ELSE IF t = <<>> THEN [ok |-> TRUE, val |-> 0]
        ELSE IF Overflows(t, negative) THEN [ok |-> FALSE, val |-> 0]
        ELSE [ok |-> TRUE, val |-> IF negative THEN (-(10 * hi)) - d ELSE 10 * hi + d]

StartsWith(s, p) == Len(s) >= Len(p) /\ SubSeq(s, 1, Len(p)) = p

\* str::replace: every non-overlapping occurrence of from, left to right
RECURSIVE replace(_, _, _)
replace(s, from, to) ==
    IF s = <<>> THEN <<>>
    ELSE IF StartsWith(s, from)
         THEN to \o replace(SubSeq(s, Len(from) + 1, Len(s)), from, to)
         ELSE <<Head(s)>> \o replace(Tail(s), from, to)

(***************************************************************************)
(* The entities and the kernel's pseudo-files                              *)
(***************************************************************************)
cpu0 == <<"c", "p", "u", "0">>
cpu1 == <<"c", "p", "u", "1">>

Names == {cpu0, cpu1}

Number(name) == DigitVal(name[Len(name)])

SCALING_MAX == "cpufreq/scaling_max_freq"
SCALING_MIN == "cpufreq/scaling_min_freq"
SCALING_CUR == "cpufreq/scaling_cur_freq"
SCALING_GOV == "cpufreq/scaling_governor"
TEMP == "temp"

CpuSubPaths == {SCALING_MAX, SCALING_MIN, SCALING_CUR, SCALING_GOV}

\* format!("/sys/devices/system/cpu/{}/{}", self.name, sub_path)
cpu_info_path(name, sub_path) == <<"/sys/devices/system/cpu", name, sub_path>>

\* format!("/sys/class/thermal/{}/{}", self.name.replace("cpu", "thermal_zone"), sub_path)
thermal_path(name, sub_path) ==
    <<"/sys/class/thermal",
      replace(name, <<"c", "p", "u">>,
              <<"t", "h", "e", "r", "m", "a", "l", "_", "z", "o", "n", "e">>),
      sub_path>>

Paths ==
    {cpu_info_path(n, s) : n \in Names, s \in CpuSubPaths}
        \cup {thermal_path(n, TEMP) : n \in Names}

\* the paths derived from one entity's name
PathsOf(name) ==
    {cpu_info_path(name, s) : s \in CpuSubPaths} \cup {thermal_path(name, TEMP)}

\* a pseudo-file: absent, or present with its bytes and whether open() is permitted
Absent == [exists |-> FALSE, perm |-> FALSE, data |-> <<>>]
File(data) == [exists |-> TRUE, perm |-> TRUE, data |-> data]
Denied(data) == [exists |-> TRUE, perm |-> FALSE, data |-> data]

Ondemand == <<"o", "n", "d", "e", "m", "a", "n", "d">>
Powersave == <<"p", "o", "w", "e", "r", "s", "a", "v", "e">>
Garbage == <<"<", "u", "n", "s", "u", "p", "p", "o", "r", "t", "e", "d", ">">>

\* the values the callers pass to the setters
FreqValues == {7, 1200}
Governors == {Ondemand, Powersave}

\* what the kernel shows in a healthy system
BootFile(path) ==
    CASE path[3] = SCALING_MAX -> File(to_string(1200) \o <<NL>>)
      [] path[3] = SCALING_MIN -> File(to_string(800) \o <<NL>>)
      [] path[3] = SCALING_CUR -> File(to_string(1000) \o <<NL>>)
      [] path[3] = SCALING_GOV -> File(Ondemand \o <<NL>>)
      [] OTHER -> File(to_string(45000) \o <<NL>>)

\* what a pseudo-file can turn into behind the program's back
KernelFiles(path) ==
    CASE path[3] = SCALING_GOV -> {File(Powersave \o <<NL>>), Absent}
      [] path[3] = TEMP ->
            {Absent, Denied(to_string(45000) \o <<NL>>), File(Garbage \o <<NL>>)}
      [] OTHER -> {File(to_string(900) \o <<NL>>), File(Garbage \o <<NL>>), Absent}

(***************************************************************************)
(* struct CPU and impl Speed for CPU, as functions of the entity and the   *)
(* file system.  An operation yields the entity and file system after it   *)
(* and how it ended: "Ok", "Err" (an Err(Error) returned to the caller) or *)
(* "Panic" (unwrap / panic!: the thread of control is aborted).            *)
(***************************************************************************)
NewCPU(name) ==
    [name |-> name, number |-> Number(name), max_freq |-> 0, min_freq |-> 0,
     cur_freq |-> 0, cur_temp |-> 0, cur_usage |-> [num |-> 0, den |-> 1],
     gov |-> <<>>]

read_int(self, fsys, sub_path) ==
    LET f == fsys[cpu_info_path(self.name, sub_path)]
        p == parse_i32(pop(f.data))
    IN  IF ~f.exists \/ ~f.perm THEN [res |-> "Panic", val |-> 0]
        ELSE IF ~p.ok THEN [res |-> "Panic", val |-> 0]
        ELSE [res |-> "Ok", val |-> p.val]

read_str(self, fsys, sub_path) ==
    LET f == fsys[cpu_info_path(self.name, sub_path)]
    IN  IF ~f.exists \/ ~f.perm THEN [res |-> "Panic", val |-> <<>>]
        ELSE [res |-> "Ok", val |-> pop(f.data)]

\* read_temp without the exists() test: a missing thermal zone is an open() error
read_temp_no_exists_test(self, fsys, sub_path) ==
    LET f == fsys[thermal_path(self.name, sub_path)]
        p == parse_i32(pop(f.data))
    IN  IF ~f.exists \/ ~f.perm THEN [res |-> "Err", val |-> 0]
        ELSE IF ~p.ok THEN [res |-> "Panic", val |-> 0]
        ELSE [res |-> "Ok", val |-> p.val]

read_temp(self, fsys, sub_path) ==
    LET f == fsys[thermal_path(self.name, sub_path)]
        p == parse_i32(pop(f.data))
    IN  IF ~f.exists THEN [res |-> "Ok", val |-> -1]
        ELSE IF ~f.perm THEN [res |-> "Err", val |-> 0]
        ELSE IF ~p.ok THEN [res |-> "Panic", val |-> 0]
        ELSE [res |-> "Ok", val |-> p.val]

\* the outcomes of File::create followed by write that the system can produce
IoOutcomes == {"ok", "create_fails", "write_fails"}

\* write_value with the core's name hard-coded in the path
write_value_first_core(self, fsys, value, io) ==
    LET sub_path == CASE value = "Max" -> SCALING_MAX
                      [] value = "Min" -> SCALING_MIN
                      [] value = "Gov" -> SCALING_GOV
        to_write == CASE value = "Max" -> to_string(self.max_freq)
                      [] value = "Min" -> to_string(self.min_freq)
                      [] value = "Gov" -> self.gov
        path == cpu_info_path(cpu0, sub_path)
        f    == fsys[path]
    IN  IF io = "create_fails" \/ (f.exists /\ ~f.perm)
        THEN [self |-> self, fs |-> fsys, res |-> "Err"]
        ELSE IF io = "write_fails"
        THEN [self |-> self, fs |-> [fsys EXCEPT ![path] = File(<<>>)], res |-> "Err"]
        ELSE [self |-> self, fs |-> [fsys EXCEPT ![path] = File(to_write)], res |-> "Ok"]

\* write_value ending what it writes with a newline
write_value_with_newline(self, fsys, value, io) ==
    LET sub_path == CASE value = "Max" -> SCALING_MAX
                      [] value = "Min" -> SCALING_MIN
                      [] value = "Gov" -> SCALING_GOV
        to_write == CASE value = "Max" -> to_string(self.max_freq)
                      [] value = "Min" -> to_string(self.min_freq)
                      [] value = "Gov" -> self.gov
        path == cpu_info_path(self.name, sub_path)
        f    == fsys[path]
    IN  IF io = "create_fails" \/ (f.exists /\ ~f.perm)
        THEN [self |-> self, fs |-> fsys, res |-> "Err"]
        ELSE IF io = "write_fails"
        THEN [self |-> self, fs |-> [fsys EXCEPT ![path] = File(<<>>)], res |-> "Err"]
        ELSE [self |-> self, fs |-> [fsys EXCEPT ![path] = File(to_write \o <<NL>>)], res |-> "Ok"]

write_value(self, fsys, value, io) ==
    LET sub_path == CASE value = "Max" -> SCALING_MAX
                      [] value = "Min" -> SCALING_MIN
                      [] value = "Gov" -> SCALING_GOV
        to_write == CASE value = "Max" -> to_string(self.max_freq)
                      [] value = "Min" -> to_string(self.min_freq)
                      [] value = "Gov" -> self.gov
        path == cpu_info_path(self.name, sub_path)
        f    == fsys[path]
    IN  IF io = "create_fails" \/ (f.exists /\ ~f.perm)
        THEN [self |-> self, fs |-> fsys, res |-> "Err"]
        ELSE IF io = "write_fails"
        THEN [self |-> self, fs |-> [fsys EXCEPT ![path] = File(<<>>)], res |-> "Err"]
        ELSE [self |-> self, fs |-> [fsys EXCEPT ![path] = File(to_write)], res |-> "Ok"]

get_max(self, fsys) ==
    LET r == read_int(self, fsys, SCALING_MAX)
    IN  IF r.res = "Ok"
        THEN [self |-> [self EXCEPT !.max_freq = r.val], fs |-> fsys, res |-> "Ok"]
        ELSE [self |-> self, fs |-> fsys, res |-> r.res]

get_min(self, fsys) ==
    LET r == read_int(self, fsys, SCALING_MIN)
    IN  IF r.res = "Ok"
        THEN [self |-> [self EXCEPT !.min_freq = r.val], fs |-> fsys, res |-> "Ok"]
        ELSE [self |-> self, fs |-> fsys, res |-> r.res]

get_cur(self, fsys) ==
    LET r == read_int(self, fsys, SCALING_CUR)
    IN  IF r.res = "Ok"
        THEN [self |-> [self EXCEPT !.cur_freq = r.val], fs |-> fsys, res |-> "Ok"]
        ELSE [self |-> self, fs |-> fsys, res |-> r.res]

get_temp(self, fsys) ==
    LET r == read_temp(self, fsys, TEMP)
    IN  IF r.res = "Ok"
        THEN [self |-> [self EXCEPT !.cur_temp = r.val], fs |-> fsys, res |-> "Ok"]
        ELSE [self |-> self, fs |-> fsys, res |-> r.res]

get_gov(self, fsys) ==
    LET r == read_str(self, fsys, SCALING_GOV)
    IN  IF r.res = "Ok"
        THEN [self |-> [self EXCEPT !.gov = r.val], fs |-> fsys, res |-> "Ok"]
        ELSE [self |-> self, fs |-> fsys, res |-> r.res]

update(self, fsys) ==
    LET a == get_max(self, fsys)
        b == get_min(a.self, fsys)
        c == get_cur(b.self, fsys)
        d == get_temp(c.self, fsys)
        e == get_gov(d.self, fsys)
    IN  IF a.res # "Ok" THEN a
        ELSE IF b.res # "Ok" THEN b
        ELSE IF c.res # "Ok" THEN c
        ELSE IF d.res # "Ok" THEN d
        ELSE e

init_cpu(self, fsys) == update(self, fsys)

set_max(self, fsys, max, io) ==
    LET w == write_value([self EXCEPT !.max_freq = max], fsys, "Max", io)
    IN  [self |-> w.self, fs |-> w.fs, res |-> w.res]

set_min(self, fsys, min, io) ==
    LET w == write_value([self EXCEPT !.min_freq = min], fsys, "Min", io)
    IN  [self |-> w.self, fs |-> w.fs, res |-> w.res]

set_gov(self, fsys, gov, io) ==
    LET w == write_value([self EXCEPT !.gov = gov], fsys, "Gov", io)
    IN  [self |-> w.self, fs |-> w.fs, res |-> w.res]

(***************************************************************************)
(* Utilisation.  calculate_cpu_percent and ProcStat live in the system     *)
(* module; they are modelled from the specification (sections 3 and 4.3):  *)
(* a snapshot is one counter per category, the percentage is               *)
(* 100 * (1 - idle_delta / total_delta), 0 for a non-positive total_delta, *)
(* clamped to [0, 100].  A percentage is kept as an exact fraction in      *)
(* lowest terms (num / den, den > 0).                                      *)
(***************************************************************************)
Categories == <<"user", "nice", "system", "idle", "iowait", "irq", "softirq", "steal">>

\* the snapshots the callers pass: time is accounted to user and idle
Snapshots ==
    {[user |-> u, nice |-> 0, system |-> 0, idle |-> i,
      iowait |-> 0, irq |-> 0, softirq |-> 0, steal |-> 0] :
        u \in 0..MaxJiffies, i \in 0..MaxJiffies}

RECURSIVE SumFirst(_, _)
SumFirst(proc, k) == IF k = 0 THEN 0 ELSE SumFirst(proc, k - 1) + proc[Categories[k]]

Total(proc) == SumFirst(proc, Len(Categories))

Abs(x) == IF x < 0 THEN -x ELSE x

RECURSIVE GCD(_, _)
GCD(a, b) == IF b = 0 THEN a ELSE GCD(b, a % b)

Fraction(num, den) ==
    LET g == GCD(Abs(num), den) IN [num |-> num \div g, den |-> den \div g]

calculate_cpu_percent(last_proc, current_proc) ==
    LET idle_delta  == current_proc.idle - last_proc.idle
        total_delta == Total(current_proc) - Total(last_proc)
        raw         == 100 * (total_delta - idle_delta)
    IN  IF total_delta <= 0 THEN Fraction(0, 1)
        ELSE IF raw < 0 THEN Fraction(0, 1)
        ELSE IF raw > 100 * total_delta THEN Fraction(100, 1)
        ELSE Fraction(raw, total_delta)

\* update_usage comparing the current snapshot with itself
update_usage_same_snapshot(self, last_proc, current_proc) ==
    [self |-> [self EXCEPT !.cur_usage = calculate_cpu_percent(current_proc, current_proc)],
     res |-> "Ok"]

\* update_usage with the two snapshots in the wrong order
update_usage_swapped(self, last_proc, current_proc) ==
    [self |-> [self EXCEPT !.cur_usage = calculate_cpu_percent(current_proc, last_proc)],
     res |-> "Ok"]

update_usage(self, last_proc, current_proc) ==
    [self |-> [self EXCEPT !.cur_usage = calculate_cpu_percent(last_proc, current_proc)],
     res |-> "Ok"]

(***************************************************************************)
(* The state machine: one action per operation of the trait, applied to    *)
(* one entity of the collection, and the kernel changing a pseudo-file.    *)
(* last records the operation that has just run and how it ended; a panic  *)
(* aborts the program, so nothing runs after it.                           *)
(***************************************************************************)
Running == last.res # "Panic" /\ steps < MaxSteps

Init ==
    /\ cpus = [n \in Names |-> NewCPU(n)]
    /\ fs = [p \in Paths |-> BootFile(p)]
    /\ last = [op |-> "new", name |-> cpu0, arg |-> 0, io |-> "ok", res |-> "Ok"]
    /\ steps = 0

Update ==
    \E n \in Names :
        LET r == update(cpus[n], fs)
        IN  /\ Running
            /\ cpus' = [cpus EXCEPT ![n] = r.self]
            /\ fs' = r.fs
            /\ last' = [op |-> "update", name |-> n, arg |-> 0, io |-> "ok", res |-> r.res]
            /\ steps' = steps + 1

InitCpu ==
    \E n \in Names :
        LET r == init_cpu(cpus[n], fs)
        IN  /\ Running
            /\ cpus' = [cpus EXCEPT ![n] = r.self]
            /\ fs' = r.fs
            /\ last' = [op |-> "init_cpu", name |-> n, arg |-> 0, io |-> "ok", res |-> r.res]
            /\ steps' = steps + 1

GetMax ==
    \E n \in Names :
        LET r == get_max(cpus[n], fs)
        IN  /\ Running
            /\ cpus' = [cpus EXCEPT ![n] = r.self]
            /\ fs' = r.fs
            /\ last' = [op |-> "get_max", name |-> n, arg |-> 0, io |-> "ok", res |-> r.res]
            /\ steps' = steps + 1

GetMin ==
    \E n \in Names :
        LET r == get_min(cpus[n], fs)
        IN  /\ Running
            /\ cpus' = [cpus EXCEPT ![n] = r.self]
            /\ fs' = r.fs
            /\ last' = [op |-> "get_min", name |-> n, arg |-> 0, io |-> "ok", res |-> r.res]
            /\ steps' = steps + 1

GetCur ==
    \E n \in Names :
        LET r == get_cur(cpus[n], fs)
        IN  /\ Running
            /\ cpus' = [cpus EXCEPT ![n] = r.self]
            /\ fs' = r.fs
            /\ last' = [op |-> "get_cur", name |-> n, arg |-> 0, io |-> "ok", res |-> r.res]
            /\ steps' = steps + 1

GetTemp ==
    \E n \in Names :
        LET r == get_temp(cpus[n], fs)
        IN  /\ Running
            /\ cpus' = [cpus EXCEPT ![n] = r.self]
            /\ fs' = r.fs
            /\ last' = [op |-> "get_temp", name |-> n, arg |-> 0, io |-> "ok", res |-> r.res]
            /\ steps' = steps + 1

GetGov ==
    \E n \in Names :
        LET r == get_gov(cpus[n], fs)
        IN  /\ Running
            /\ cpus' = [cpus EXCEPT ![n] = r.self]
            /\ fs' = r.fs
            /\ last' = [op |-> "get_gov", name |-> n, arg |-> 0, io |-> "ok", res |-> r.res]
            /\ steps' = steps + 1

SetMax ==
    \E n \in Names, max \in FreqValues, io \in IoOutcomes :
        LET r == set_max(cpus[n], fs, max, io)
        IN  /\ Running
            /\ cpus' = [cpus EXCEPT ![n] = r.self]
            /\ fs' = r.fs
            /\ last' = [op |-> "set_max", name |-> n, arg |-> max, io |-> io, res |-> r.res]
            /\ steps' = steps + 1

SetMin ==
    \E n \in Names, min \in FreqValues, io \in IoOutcomes :
        LET r == set_min(cpus[n], fs, min, io)
        IN  /\ Running
            /\ cpus' = [cpus EXCEPT ![n] = r.self]
            /\ fs' = r.fs
            /\ last' = [op |-> "set_min", name |-> n, arg |-> min, io |-> io, res |-> r.res]
            /\ steps' = steps + 1

SetGov ==
    \E n \in Names, gov \in Governors, io \in IoOutcomes :
        LET r == set_gov(cpus[n], fs, gov, io)
        IN  /\ Running
            /\ cpus' = [cpus EXCEPT ![n] = r.self]
            /\ fs' = r.fs
            /\ last' = [op |-> "set_gov", name |-> n, arg |-> gov, io |-> io, res |-> r.res]
            /\ steps' = steps + 1

WriteValue ==
    \E n \in Names, value \in {"Min", "Max", "Gov"}, io \in IoOutcomes :
        LET r == write_value(cpus[n], fs, value, io)
        IN  /\ Running
            /\ cpus' = [cpus EXCEPT ![n] = r.self]
            /\ fs' = r.fs
            /\ last' = [op |-> "write_value", name |-> n, arg |-> value, io |-> io, res |-> r.res]
            /\ steps' = steps + 1

\* the kernel, or another process, changes one pseudo-file
Kernel ==
    /\ Running
    /\ \E p \in Paths : \E f \in KernelFiles(p) :
        /\ fs' = [fs EXCEPT ![p] = f]
        /\ last' = [op |-> "kernel", name |-> p[2], arg |-> 0, io |-> "ok", res |-> "Ok"]
    /\ steps' = steps + 1
    /\ UNCHANGED cpus

Next ==
    \/ Update
    \/ InitCpu
    \/ GetMax
    \/ GetMin
    \/ GetCur
    \/ GetTemp
    \/ GetGov
    \/ SetMax
    \/ SetMin
    \/ SetGov
    \/ WriteValue
    \/ Kernel

Spec == Init /\ [][Next]_vars

\* the caller's sampling loop: two snapshots, then update_usage
UpdateUsage ==
    \E n \in Names, last_proc \in Snapshots, current_proc \in Snapshots :
        LET r == update_usage(cpus[n], last_proc, current_proc)
        IN  /\ last.res # "Panic"
            /\ cpus' = [cpus EXCEPT ![n] = r.self]
            /\ last' = [op |-> "update_usage", name |-> n,
                        arg |-> <<last_proc, current_proc>>, io |-> "ok", res |-> r.res]
            /\ UNCHANGED <<fs, steps>>

NextUsage == UpdateUsage

SpecUsage == Init /\ [][NextUsage]_vars

(***************************************************************************)
(* Vocabulary of the properties                                            *)
(***************************************************************************)
\* the step just taken is an operation of the trait on entity last'.name
Ran(op) == steps' = steps + 1 /\ last'.op = op

Setters == {"set_max", "set_min", "set_gov"}

\* text with one trailing newline removed, and nothing else
StripTrailingNewline(s) ==
    IF s # <<>> /\ s[Len(s)] = NL THEN SubSeq(s, 1, Len(s) - 1) ELSE s

\* text that lacks exactly the last character of data (all of it when data is empty)
LacksLastOf(text, data) ==
    \/ data = <<>> /\ text = <<>>
    \/ Len(data) = Len(text) + 1 /\ SubSeq(data, 1, Len(text)) = text

\* the bytes are the decimal notation of n: digits, "-" first when negative,
\* no "+", no leading zero, no newline
IsDecimalOf(data, n) ==
    /\ data # <<>>
    /\ \A i \in 1..Len(data) : IsDigit(data[i]) \/ (i = 1 /\ data[i] = "-")
    /\ LET digits == IF data[1] = "-" THEN Tail(data) ELSE data
       IN  /\ digits # <<>>
           /\ Len(digits) > 1 => digits[1] # "0"
           /\ DigitsValue(digits) = (IF data[1] = "-" THEN -n ELSE n)
    /\ (data[1] = "-") = (n < 0)

Readable(f) == f.exists /\ f.perm

\* the three frequency files and the governor file of the entity can be read,
\* and the frequency files hold a number once their last character is dropped
CpufreqReadsSucceed(name) ==
    /\ \A s \in CpuSubPaths : Readable(fs[cpu_info_path(name, s)])
    /\ \A s \in {SCALING_MAX, SCALING_MIN, SCALING_CUR} :
         parse_i32(pop(fs[cpu_info_path(name, s)].data)).ok

IdleDelta(pair) == pair[2].idle - pair[1].idle
TotalDelta(pair) == Total(pair[2]) - Total(pair[1])

(***************************************************************************)
(* The claims                                                              *)
(***************************************************************************)

\* C1: a successful set_max(X) followed by get_max() on a store that keeps
\* exactly the bytes written leaves max_freq = X.
C1_RoundTrip ==
    [][(last.op = "set_max" /\ last.res = "Ok" /\ Ran("get_max")
            /\ last'.name = last.name)
        => (last'.res = "Ok" /\ cpus'[last.name].max_freq = last.arg)]_vars

\* C2: when set_max, set_min or set_gov returns an error, the in-memory field
\* still holds the value it had before the call.
C2_FieldKeptOnError ==
    [][(\E op \in Setters : Ran(op)) /\ last'.res = "Err"
        => cpus'[last'.name] = cpus[last'.name]]_vars

\* C3: every failure while update() reads a field is returned as an error;
\* none aborts the program.
C3_UpdateNeverAborts ==
    last.op \in {"update", "init_cpu"} => last.res \in {"Ok", "Err"}

\* C4: when the thermal-zone path of the core does not exist, get_temp ends
\* Ok with cur_temp = -1, and update() (the cpufreq reads succeeding) sets
\* cur_temp to -1, goes on to read the governor and returns success.
C4_MissingThermalZone ==
    /\ (last.op = "get_temp" /\ ~fs[thermal_path(last.name, TEMP)].exists)
        => (last.res = "Ok" /\ cpus[last.name].cur_temp = -1)
    /\ (/\ last.op = "update"
        /\ ~fs[thermal_path(last.name, TEMP)].exists
        /\ CpufreqReadsSucceed(last.name))
        => (/\ last.res = "Ok"
            /\ cpus[last.name].cur_temp = -1
            /\ LacksLastOf(cpus[last.name].gov,
                           fs[cpu_info_path(last.name, SCALING_GOV)].data))

C4_Witness ==
    /\ last.op = "update"
    /\ ~fs[thermal_path(last.name, TEMP)].exists
    /\ last.res = "Ok"
    /\ cpus[last.name].cur_temp = -1
    /\ cpus[last.name].gov = Ondemand

\* C5: update() refreshes gov even when the temperature read fails with an
\* error (the governor file being readable).
C5_GovReadAfterTempError ==
    (/\ last.op = "update"
     /\ last.res = "Err"
     /\ Readable(fs[cpu_info_path(last.name, SCALING_GOV)]))
    => LacksLastOf(cpus[last.name].gov,
                   fs[cpu_info_path(last.name, SCALING_GOV)].data)

\* C6: a read strips exactly one trailing newline and nothing else: content
\* that does not end in a newline is returned (read_str) or parsed (read_int)
\* whole.
C6_StripsOnlyNewline ==
    /\ (last.op = "get_gov" /\ last.res = "Ok")
        => cpus[last.name].gov
             = StripTrailingNewline(fs[cpu_info_path(last.name, SCALING_GOV)].data)
    /\ (last.op = "get_max" /\ last.res = "Ok")
        => LET p == parse_i32(StripTrailingNewline(
                        fs[cpu_info_path(last.name, SCALING_MAX)].data))
           IN  p.ok /\ cpus[last.name].max_freq = p.val

\* C7: with total_delta <= 0 (identical snapshots in particular) update_usage
\* succeeds and sets cur_usage to exactly 0.
C7_DegenerateIsZero ==
    (last.op = "update_usage" /\ TotalDelta(last.arg) <= 0)
    => (last.res = "Ok" /\ cpus[last.name].cur_usage = [num |-> 0, den |-> 1])

C7_Witness ==
    /\ last.op = "update_usage"
    /\ TotalDelta(last.arg) < 0
    /\ IdleDelta(last.arg) > 0
    /\ cpus[last.name].cur_usage = [num |-> 0, den |-> 1]

\* C8: cur_usage always lies in [0, 100], and for current.total > previous.total
\* it is 100 * (1 - idle_delta / total_delta) clamped to that range.
C8_UsageInRange ==
    /\ \A n \in Names :
         LET u == cpus[n].cur_usage
         IN  u.den > 0 /\ 0 <= u.num /\ u.num <= 100 * u.den
    /\ (last.op = "update_usage" /\ TotalDelta(last.arg) > 0)
        => LET u   == cpus[last.name].cur_usage
               td  == TotalDelta(last.arg)
               raw == 100 * (td - IdleDelta(last.arg))
           IN  /\ raw < 0 => u.num = 0
               /\ raw > 100 * td => u.num = 100 * u.den
               /\ (0 <= raw /\ raw <= 100 * td) => u.num * td = raw * u.den

C8_Witness ==
    /\ last.op = "update_usage"
    /\ TotalDelta(last.arg) = 3
    /\ IdleDelta(last.arg) = 1
    /\ cpus[last.name].cur_usage = [num |-> 200, den |-> 3]

\* how an operation recorded in last acts on an entity and a file system
Effect(l, self, fsys) ==
    CASE l.op = "update" -> update(self, fsys)
      [] l.op = "init_cpu" -> init_cpu(self, fsys)
      [] l.op = "get_max" -> get_max(self, fsys)
      [] l.op = "get_min" -> get_min(self, fsys)
      [] l.op = "get_cur" -> get_cur(self, fsys)
      [] l.op = "get_temp" -> get_temp(self, fsys)
      [] l.op = "get_gov" -> get_gov(self, fsys)
      [] l.op = "set_max" -> set_max(self, fsys, l.arg, l.io)
      [] l.op = "set_min" -> set_min(self, fsys, l.arg, l.io)
      [] l.op = "set_gov" -> set_gov(self, fsys, l.arg, l.io)
      [] l.op = "write_value" -> write_value(self, fsys, l.arg, l.io)

\* the file system with nothing but the pseudo-files of one entity
Alone(fsys, name) == [p \in Paths |-> IF p \in PathsOf(name) THEN fsys[p] ELSE Absent]

\* C9: an operation on one entity leaves every other entity's fields and
\* pseudo-files as they were, and does to its own entity and pseudo-files
\* what it does when it runs without the others: any interleaving of the
\* operations on two entities ends as each entity's operations run alone.
C9_Independent ==
    [][(steps' = steps + 1 /\ last'.op # "kernel")
        => \E n \in {last'.name} :
           \E r \in {Effect(last', cpus[n], Alone(fs, n))} :
               /\ \A m \in Names \ {n} :
                     /\ cpus'[m] = cpus[m]
                     /\ \A p \in PathsOf(m) : fs'[p] = fs[p]
               /\ cpus'[n] = r.self
               /\ \A p \in PathsOf(n) : fs'[p] = r.fs[p]
               /\ last'.res = r.res]_vars

C9_Witness ==
    /\ last.op = "set_max" /\ last.name = cpu1 /\ last.res = "Ok"
    /\ cpus[cpu1].max_freq = 1200
    /\ fs[cpu_info_path(cpu1, SCALING_MAX)].data = to_string(1200)
    /\ cpus[cpu0].gov = Powersave
    /\ fs[cpu_info_path(cpu0, SCALING_GOV)].data = Powersave

\* C10: write_value(v) writes the attribute v selects, as its decimal string
\* (Max, Min) or as it is (Gov), with no newline, to that attribute's file;
\* every other pseudo-file and every field of every entity stay as they were,
\* whether the write succeeds or fails.
C10_WriteValueFrame ==
    [][Ran("write_value")
        => LET n      == last'.name
               v      == last'.arg
               target == cpu_info_path(n, CASE v = "Max" -> SCALING_MAX
                                            [] v = "Min" -> SCALING_MIN
                                            [] v = "Gov" -> SCALING_GOV)
               data   == fs'[target].data
           IN  /\ cpus' = cpus
               /\ \A p \in Paths \ {target} : fs'[p] = fs[p]
               /\ last'.res = "Ok" =>
                    /\ Readable(fs'[target])
                    /\ v = "Max" => IsDecimalOf(data, cpus[n].max_freq)
                    /\ v = "Min" => IsDecimalOf(data, cpus[n].min_freq)
                    /\ v = "Gov" => data = cpus[n].gov]_vars

C10_Witness ==
    /\ last.op = "write_value" /\ last.arg = "Min" /\ last.res = "Ok"
    /\ cpus[last.name].min_freq = 800
    /\ fs[cpu_info_path(last.name, SCALING_MIN)].data = <<"8", "0", "0">>
    /\ fs[cpu_info_path(last.name, SCALING_MAX)].data = <<"1", "2", "0", "0", NL>>

====
